---- MODULE Spec2Model ----
(***************************************************************************)
(* Model of src/streamlit_app.py: the memoised loader get_connection()     *)
(* (CSV files -> in-memory SQLite engine, cached per process by            *)
(* st.cache_resource), the script run of each browser session, and the     *)
(* three catalogue queries (Consulta 1, 2, 3) with their pandas            *)
(* post-processing.                                                        *)
(*                                                                         *)
(* Encodings.  Brands, models, years, policy ids and days are small        *)
(* positive integers; SQL NULL is Null.  A premium is an integer number of *)
(* quarter units (10.5 is 42, 20.25 is 81), so that SUM over REAL is exact.*)
(* A text value that SQLite compares bytewise (a stored timestamp, the     *)
(* result of date('now')) is a sequence of integers compared               *)
(* lexicographically: day d at 00:00:00 is <<d, 0>>, the date d is <<d>>.  *)
(***************************************************************************)
EXTENDS Integers, Sequences, FiniteSets, TLC

VARIABLES
    fileState,    \* per source file: "ok", "malformed" or "missing"
    policiesCsv,  \* data rows of data/policies.csv
    feesCsv,      \* data rows of data/fees.csv
    cache,        \* st.cache_resource entry of get_connection: a handle or NoConn
    lock,         \* holder of the cache's compute lock, or NoSession
    engines,      \* the SQLite engines created so far; a handle is an index
    reads,        \* how many times each CSV file has been read successfully
    pc,           \* per session: position of its script run
    clicked,      \* per session: the button whose click started the run (0: none)
    frames,       \* per session: DataFrames local to get_connection/load_data
    conn,         \* per session: the script's global `conn` of the current run
    route,        \* per session: how get_connection returned in the current run
    runs,         \* per session: script runs started
    out           \* per session: what the current page shows

vars == <<fileState, policiesCsv, feesCsv, cache, lock, engines, reads,
          pc, clicked, frames, conn, route, runs, out>>

---------------------------------------------------------------------------
(* Bounds *)

MaxRuns == 3
MaxDay == 3
MaxFees == 3
MaxRows == 3
MaxPolicies == 17
MaxBrands == 12

Sessions == {"s1", "s2"}
NoSession == "none"
Days == 1..MaxDay

---------------------------------------------------------------------------
(* Program constants *)

HeadN == 15
NLargestN == 10
NoConn == 0
Null == 0

Files == {"policies", "fees"}

---------------------------------------------------------------------------
(* Generic helpers: sequences, text comparison, sorting *)

RECURSIVE LexLess(_, _)
LexLess(a, b) ==
    IF a = <<>> THEN b # <<>>
    ELSE IF b = <<>> THEN FALSE
    ELSE IF Head(a) < Head(b) THEN TRUE
    ELSE IF Head(a) > Head(b) THEN FALSE
    ELSE LexLess(Tail(a), Tail(b))

LexLeq(a, b) == a = b \/ LexLess(a, b)

Reverse(s) == [i \in 1..Len(s) |-> s[Len(s) + 1 - i]]

FirstN(s, n) == SubSeq(s, 1, IF Len(s) < n THEN Len(s) ELSE n)

\* The keys of a set of integer tuples in ascending (lexicographic) order.
RECURSIVE SortKeys(_)
SortKeys(S) ==
    IF S = {} THEN <<>>
    ELSE LET m == CHOOSE x \in S : \A y \in S : LexLeq(x, y)
         IN  <<m>> \o SortKeys(S \ {m})

\* Insert row r into a sequence sorted by descending field f, after its equals.
RECURSIVE InsertDesc(_, _, _)
InsertDesc(r, s, f) ==
    IF s = <<>> THEN <<r>>
    ELSE IF Head(s)[f] >= r[f] THEN <<Head(s)>> \o InsertDesc(r, Tail(s), f)
    ELSE <<r>> \o s

\* Mutant of StableSortDesc: the rows are left in the order given.
NoSort(s, f) == s

\* Stable sort by descending field f: equal rows keep their order in s.
RECURSIVE StableSortDesc(_, _)
StableSortDesc(s, f) ==
    IF s = <<>> THEN <<>>
    ELSE InsertDesc(s[Len(s)], StableSortDesc(SubSeq(s, 1, Len(s) - 1), f), f)

\* Insert r into a sequence sorted by ascending field f, after its equals.
RECURSIVE InsertAsc(_, _, _)
InsertAsc(r, s, f) ==
    IF s = <<>> THEN <<r>>
    ELSE IF Head(s)[f] <= r[f] THEN <<Head(s)>> \o InsertAsc(r, Tail(s), f)
    ELSE <<r>> \o s

RECURSIVE StableSortAsc(_, _)
StableSortAsc(s, f) ==
    IF s = <<>> THEN <<>>
    ELSE InsertAsc(s[Len(s)], StableSortAsc(SubSeq(s, 1, Len(s) - 1), f), f)

\* Sum of field f over the rows of s.
RECURSIVE SumField(_, _)
SumField(s, f) == IF s = <<>> THEN 0 ELSE Head(s)[f] + SumField(Tail(s), f)

\* The order in which the engine hands rows to a sorter is not specified
\* for rows with equal sort keys: either scan direction may be observed.
TieOrders == {"fwd", "rev"}
EngineOrder(s, tie) == IF tie = "fwd" THEN s ELSE Reverse(s)

---------------------------------------------------------------------------
(* load_data: pandas.read_csv, and DataFrame.to_sql *)

\* pd.read_csv('data/policies.csv', dtype={status, vehicle, coverages: str}):
\* the JSON columns are kept as raw text, row order is file order.
ReadPoliciesCsv(csv) ==
    [i \in 1..Len(csv) |->
        [policy_id |-> csv[i].policy_id, status |-> csv[i].status,
         vehicle |-> csv[i].vehicle, coverages |-> csv[i].coverages]]

\* parse_dates=['due_date']: a date cell becomes a timestamp at midnight.
ParseDate(d) == [day |-> d, sec |-> 0]

ReadFeesCsv(csv) ==
    [i \in 1..Len(csv) |->
        [fee_id |-> csv[i].fee_id, policy_id |-> csv[i].policy_id,
         status |-> csv[i].status, due_date |-> ParseDate(csv[i].due_date),
         amount |-> csv[i].amount]]

\* to_sql writes a timestamp as the text 'YYYY-MM-DD HH:MM:SS'.
TimestampText(ts) == <<ts.day, ts.sec>>

PoliciesToSql(df) == df

FeesToSql(df) ==
    [i \in 1..Len(df) |-> [df[i] EXCEPT !.due_date = TimestampText(df[i].due_date)]]

\* date('now'): the text 'YYYY-MM-DD' of the current day.
DateNow(now) == <<now>>

---------------------------------------------------------------------------
(* SQLite JSON functions *)

\* json_extract(obj, '$.key'): the member's value, NULL when it is absent.
JsonExtract(obj, key) == IF key \in DOMAIN obj THEN obj[key] ELSE Null

\* Mutant of JsonEach: only the first element of the list is produced.
JsonEachFirst(arr) == [i \in 1..(IF Len(arr) > 0 THEN 1 ELSE 0) |-> [value |-> arr[i]]]

\* json_each(array): one row per element, in array order.
JsonEach(arr) == [i \in 1..Len(arr) |-> [value |-> arr[i]]]

---------------------------------------------------------------------------
(* Consulta 1 *)

\* Mutant of Q1Where: the status filter is dropped.
Q1WhereAnyStatus(r) ==
    /\ "brand" \in DOMAIN r.vehicle /\ r.vehicle.brand # Null
    /\ "model" \in DOMAIN r.vehicle /\ r.vehicle.model # Null
    /\ "year" \in DOMAIN r.vehicle /\ r.vehicle.year # Null

Q1Where(r) ==
    /\ r.status = "active"
    /\ JsonExtract(r.vehicle, "brand") # Null
    /\ JsonExtract(r.vehicle, "model") # Null
    /\ JsonExtract(r.vehicle, "year") # Null

Q1Key(r) == <<JsonExtract(r.vehicle, "brand"), JsonExtract(r.vehicle, "model"),
              JsonExtract(r.vehicle, "year")>>

\* GROUP BY marca, modelo, año with COUNT(*); ORDER BY cantidad DESC.
Query1(policies, tie) ==
    LET rows == SelectSeq(policies, Q1Where)
        groups == SortKeys({Q1Key(rows[i]) : i \in DOMAIN rows})
        agg == [g \in 1..Len(groups) |->
                  [marca |-> groups[g][1], modelo |-> groups[g][2],
                   anio |-> groups[g][3],
                   cantidad |-> Cardinality({i \in DOMAIN rows :
                                               Q1Key(rows[i]) = groups[g]})]]
    IN  StableSortDesc(EngineOrder(agg, tie), "cantidad")

\* df1.groupby('marca', as_index=False)['cantidad'].sum(): one row per brand,
\* brands ascending.
GroupByMarca(df1) ==
    LET brands == SortKeys({<<df1[i].marca>> : i \in DOMAIN df1})
    IN  [b \in 1..Len(brands) |->
           [marca |-> brands[b][1],
            cantidad |-> SumField(SelectSeq(df1, LAMBDA r : r.marca = brands[b][1]),
                                  "cantidad")]]

\* DataFrame.nlargest(n, 'cantidad'), keep='first'.
NLargest(df, n) == FirstN(StableSortDesc(df, "cantidad"), n)

top_brand(df1) == NLargest(GroupByMarca(df1), NLargestN)

---------------------------------------------------------------------------
(* Consulta 2 *)

\* Mutant of CrossJoinEach: a LEFT JOIN, a policy with an empty list keeps
\* one row with a NULL premium.
RECURSIVE LeftJoinEach(_)
LeftJoinEach(policies) ==
    IF policies = <<>> THEN <<>>
    ELSE LET p == Head(policies)
         IN  (IF p.coverages = <<>>
              THEN <<[policy_id |-> p.policy_id, premium |-> Null]>>
              ELSE [i \in 1..Len(p.coverages) |->
                      [policy_id |-> p.policy_id,
                       premium |-> p.coverages[i].premium]])
             \o LeftJoinEach(Tail(policies))

\* policies CROSS JOIN json_each(policies.coverages): one row per list element.
RECURSIVE CrossJoinEach(_)
CrossJoinEach(policies) ==
    IF policies = <<>> THEN <<>>
    ELSE LET p == Head(policies)
             cov == JsonEach(p.coverages)
         IN  [i \in 1..Len(cov) |->
                [policy_id |-> p.policy_id,
                 premium |-> JsonExtract(cov[i].value, "premium")]]
             \o CrossJoinEach(Tail(policies))

\* GROUP BY policy_id with SUM(premium); ORDER BY prima_total DESC.
Query2(policies, tie) ==
    LET joined == CrossJoinEach(policies)
        groups == SortKeys({<<joined[i].policy_id>> : i \in DOMAIN joined})
        agg == [g \in 1..Len(groups) |->
                  [policy_id |-> groups[g][1],
                   prima_total |->
                       SumField(SelectSeq(joined,
                                    LAMBDA r : r.policy_id = groups[g][1]),
                                "premium")]]
    IN  StableSortDesc(EngineOrder(agg, tie), "prima_total")

\* df2.head(15)
Head15(df2) == FirstN(df2, HeadN)

---------------------------------------------------------------------------
(* Consulta 3 *)

Q3Open(r, now) ==
    /\ r.status \in {"pending", "overdue"}
    /\ LexLeq(DateNow(now), r.due_date)

\* SELECT MIN(due_date) FROM fees WHERE policy_id = f.policy_id AND ...
\* (NULL, written <<>>, when no row qualifies).
Q3MinDue(fees, pid, now) ==
    LET S == {fees[i].due_date : i \in {j \in DOMAIN fees :
                  fees[j].policy_id = pid /\ Q3Open(fees[j], now)}}
    IN  IF S = {} THEN <<>>
        ELSE CHOOSE d \in S : \A e \in S : LexLeq(d, e)

Q3Where(fees, r, now) ==
    /\ Q3Open(r, now)
    /\ Q3MinDue(fees, r.policy_id, now) # <<>>
    /\ r.due_date = Q3MinDue(fees, r.policy_id, now)

Query3(fees, now, tie) ==
    LET sel == SelectSeq(fees, LAMBDA r : Q3Where(fees, r, now))
        prj == [i \in 1..Len(sel) |->
                  [policy_id |-> sel[i].policy_id, fee_id |-> sel[i].fee_id,
                   due_date |-> sel[i].due_date, amount |-> sel[i].amount]]
    IN  StableSortAsc(EngineOrder(prj, tie), "policy_id")

---------------------------------------------------------------------------
(* The script run of a session (Streamlit reruns the whole script on each *)
(* interaction) and the memoised get_connection()                          *)

NoOut == [ran |-> 0, df1 |-> <<>>, top_brand |-> <<>>, df2 |-> <<>>,
          shown2 |-> <<>>, df3 |-> <<>>, now |-> 0]

NoFrames == [policies |-> <<>>, fees |-> <<>>]

Buttons == {1, 2, 3}

\* Mutant of CacheLookup: no memoisation, every call misses.
CacheLookupMiss(c) == NoConn

\* The cache entry found for get_connection(): the stored handle, or NoConn.
CacheLookup(c) == c

\* Mutant of LockFree: the compute lock excludes nobody.
LockFreeAlways(l) == TRUE

\* The compute lock of the cache entry can be taken.
LockFree(l) == l = NoSession

\* Mutant of Raise: the exception is swallowed and the script goes on.
RaiseContinue(s) ==
    /\ pc' = [pc EXCEPT ![s] = "tab1"]
    /\ lock' = IF lock = s THEN NoSession ELSE lock
    /\ frames' = [frames EXCEPT ![s] = NoFrames]

\* An uncaught exception ends the script run: nothing after it executes, the
\* compute lock (a `with` block) is released, the page shows the error.
Raise(s) ==
    /\ pc' = [pc EXCEPT ![s] = "error"]
    /\ lock' = IF lock = s THEN NoSession ELSE lock
    /\ frames' = [frames EXCEPT ![s] = NoFrames]

\* A session (re)runs the script: first page load, a refresh, or a click on
\* one of the buttons of the page rendered by a completed run.
Rerun(s) ==
    /\ pc[s] \in {"idle", "error"}
    /\ runs[s] < MaxRuns
    /\ \E b \in {0} \cup Buttons :
          /\ b # 0 => (pc[s] = "idle" /\ runs[s] > 0)
          /\ clicked' = [clicked EXCEPT ![s] = b]
    /\ runs' = [runs EXCEPT ![s] = @ + 1]
    /\ pc' = [pc EXCEPT ![s] = "get_connection"]
    /\ conn' = [conn EXCEPT ![s] = NoConn]
    /\ route' = [route EXCEPT ![s] = "none"]
    /\ out' = [out EXCEPT ![s] = NoOut]
    /\ UNCHANGED <<fileState, policiesCsv, feesCsv, cache, lock, engines,
                   reads, frames>>

\* conn = get_connection(): the cache is read without the lock first.
CacheRead(s) ==
    /\ pc[s] = "get_connection"
    /\ IF CacheLookup(cache) # NoConn
       THEN /\ conn' = [conn EXCEPT ![s] = CacheLookup(cache)]
            /\ route' = [route EXCEPT ![s] = "hit"]
            /\ pc' = [pc EXCEPT ![s] = "tab1"]
       ELSE /\ pc' = [pc EXCEPT ![s] = "lock"]
            /\ UNCHANGED <<conn, route>>
    /\ UNCHANGED <<fileState, policiesCsv, feesCsv, cache, lock, engines,
                   reads, clicked, frames, runs, out>>

\* On a miss st.cache_resource takes the entry's compute lock and reads the
\* cache again under it; only a second miss runs the function body.
LockAcquire(s) ==
    /\ pc[s] = "lock"
    /\ LockFree(lock)
    /\ IF CacheLookup(cache) # NoConn
       THEN /\ conn' = [conn EXCEPT ![s] = CacheLookup(cache)]
            /\ route' = [route EXCEPT ![s] = "waited"]
            /\ pc' = [pc EXCEPT ![s] = "tab1"]
            /\ lock' = lock
       ELSE /\ lock' = s
            /\ pc' = [pc EXCEPT ![s] = "read_policies"]
            /\ UNCHANGED <<conn, route>>
    /\ UNCHANGED <<fileState, policiesCsv, feesCsv, cache, engines,
                   reads, clicked, frames, runs, out>>

\* load_data, first line: pd.read_csv('data/policies.csv', ...)
ReadPolicies(s) ==
    /\ pc[s] = "read_policies"
    /\ IF fileState.policies = "ok"
       THEN /\ frames' = [frames EXCEPT ![s].policies = ReadPoliciesCsv(policiesCsv)]
            /\ reads' = [reads EXCEPT !.policies = @ + 1]
            /\ pc' = [pc EXCEPT ![s] = "read_fees"]
            /\ lock' = lock
       ELSE /\ Raise(s)
            /\ reads' = reads
    /\ UNCHANGED <<fileState, policiesCsv, feesCsv, cache, engines,
                   clicked, conn, route, runs, out>>

\* Mutant of ReadFees: a file that fails to parse is skipped (its frame
\* stays empty) and the load goes on.
ReadFeesSkip(s) ==
    /\ pc[s] = "read_fees"
    /\ IF fileState.fees = "ok"
       THEN /\ frames' = [frames EXCEPT ![s].fees = ReadFeesCsv(feesCsv)]
            /\ reads' = [reads EXCEPT !.fees = @ + 1]
       ELSE /\ frames' = frames
            /\ reads' = reads
    /\ pc' = [pc EXCEPT ![s] = "to_sql"]
    /\ UNCHANGED <<fileState, policiesCsv, feesCsv, cache, lock, engines,
                   clicked, conn, route, runs, out>>

\* load_data, second line: pd.read_csv('data/fees.csv', ...)
ReadFees(s) ==
    /\ pc[s] = "read_fees"
    /\ IF fileState.fees = "ok"
       THEN /\ frames' = [frames EXCEPT ![s].fees = ReadFeesCsv(feesCsv)]
            /\ reads' = [reads EXCEPT !.fees = @ + 1]
            /\ pc' = [pc EXCEPT ![s] = "to_sql"]
            /\ lock' = lock
       ELSE /\ Raise(s)
            /\ reads' = reads
    /\ UNCHANGED <<fileState, policiesCsv, feesCsv, cache, engines,
                   clicked, conn, route, runs, out>>

\* sqlite3.connect(":memory:") and the two to_sql calls.
Build(s) ==
    /\ pc[s] = "to_sql"
    /\ engines' = Append(engines,
                     [policies |-> PoliciesToSql(frames[s].policies),
                      fees |-> FeesToSql(frames[s].fees)])
    /\ conn' = [conn EXCEPT ![s] = Len(engines) + 1]
    /\ frames' = [frames EXCEPT ![s] = NoFrames]
    /\ pc' = [pc EXCEPT ![s] = "store"]
    /\ UNCHANGED <<fileState, policiesCsv, feesCsv, cache, lock, reads,
                   clicked, route, runs, out>>

\* The returned connection is written to the cache and the lock released.
Store(s) ==
    /\ pc[s] = "store"
    /\ cache' = conn[s]
    /\ lock' = NoSession
    /\ route' = [route EXCEPT ![s] = "computed"]
    /\ pc' = [pc EXCEPT ![s] = "tab1"]
    /\ UNCHANGED <<fileState, policiesCsv, feesCsv, engines, reads,
                   clicked, frames, conn, runs, out>>

\* Mutant of Button1: the result is also written to the engine (df1.to_sql).
Button1Store(s) ==
    /\ pc[s] = "tab1"
    /\ pc' = [pc EXCEPT ![s] = "q2"]
    /\ IF clicked[s] = 1
       THEN \E tie \in TieOrders :
               LET df1 == Query1(engines[conn[s]].policies, tie)
               IN  /\ out' = [out EXCEPT ![s].ran = 1, ![s].df1 = df1,
                                         ![s].top_brand = top_brand(df1)]
                   /\ engines' = [engines EXCEPT ![conn[s]] =
                                     [policies |-> @.policies, fees |-> @.fees,
                                      df1 |-> df1]]
       ELSE out' = out /\ engines' = engines
    /\ UNCHANGED <<fileState, policiesCsv, feesCsv, cache, lock,
                   reads, clicked, frames, conn, route, runs>>

\* if st.button("Ejecutar Consulta 1"): df1 = pd.read_sql(query1, conn); ...
Button1(s) ==
    /\ pc[s] = "tab1"
    /\ pc' = [pc EXCEPT ![s] = "q2"]
    /\ IF clicked[s] = 1
       THEN \E tie \in TieOrders :
               LET df1 == Query1(engines[conn[s]].policies, tie)
               IN  out' = [out EXCEPT ![s].ran = 1, ![s].df1 = df1,
                                      ![s].top_brand =
                                          IF df1 # <<>> THEN top_brand(df1) ELSE <<>>]
       ELSE out' = out
    /\ UNCHANGED <<fileState, policiesCsv, feesCsv, cache, lock, engines,
                   reads, clicked, frames, conn, route, runs>>

\* if st.button("Ejecutar Consulta 2"): df2 = ...; st.dataframe(df2.head(15))
Button2(s) ==
    /\ pc[s] = "q2"
    /\ pc' = [pc EXCEPT ![s] = "q3"]
    /\ IF clicked[s] = 2
       THEN \E tie \in TieOrders :
               LET df2 == Query2(engines[conn[s]].policies, tie)
               IN  out' = [out EXCEPT ![s].ran = 2, ![s].df2 = df2,
                                      ![s].shown2 = Head15(df2)]
       ELSE out' = out
    /\ UNCHANGED <<fileState, policiesCsv, feesCsv, cache, lock, engines,
                   reads, clicked, frames, conn, route, runs>>

\* if st.button("Ejecutar Consulta 3"): df3 = pd.read_sql(query3, conn); ...
\* The query reads the wall clock (date('now')) when it executes.
Button3(s) ==
    /\ pc[s] = "q3"
    /\ pc' = [pc EXCEPT ![s] = "idle"]
    /\ IF clicked[s] = 3
       THEN \E now \in Days, tie \in TieOrders :
               out' = [out EXCEPT ![s].ran = 3, ![s].now = now,
                          ![s].df3 = Query3(engines[conn[s]].fees, now, tie)]
       ELSE out' = out
    /\ UNCHANGED <<fileState, policiesCsv, feesCsv, cache, lock, engines,
                   reads, clicked, frames, conn, route, runs>>

Next ==
    \E s \in Sessions :
        \/ Rerun(s)
        \/ CacheRead(s)
        \/ LockAcquire(s)
        \/ ReadPolicies(s)
        \/ ReadFees(s)
        \/ Build(s)
        \/ Store(s)
        \/ Button1(s)
        \/ Button2(s)
        \/ Button3(s)

---------------------------------------------------------------------------
(* Initial states *)

Vehicle(b, m, y) == [brand |-> b, model |-> m, year |-> y]
Coverage(p) == [premium |-> p]

PolicyRow(id, st, v, cov) ==
    [policy_id |-> id, status |-> st, vehicle |-> v, coverages |-> cov]

FeeRow(id, pid, st, due) ==
    [fee_id |-> id, policy_id |-> pid, status |-> st, due_date |-> due,
     amount |-> 10 * id]

SamplePolicies ==
    << PolicyRow(1, "active", Vehicle(1, 1, 1), <<Coverage(42), Coverage(81)>>),
       PolicyRow(2, "cancelled", Vehicle(1, 1, 1), <<>>),
       PolicyRow(3, "active", [brand |-> 2, year |-> 1], <<Coverage(5)>>) >>

SampleFees ==
    << FeeRow(1, 1, "paid", 1), FeeRow(2, 1, "pending", 2),
       FeeRow(3, 1, "pending", 3) >>

\* Process start: nothing cached, no engine, no script run yet.
InitProcess(open) ==
    /\ cache = NoConn
    /\ lock = NoSession
    /\ engines = <<>>
    /\ reads = [f \in Files |-> 0]
    /\ pc = [s \in Sessions |-> IF s \in open THEN "idle" ELSE "closed"]
    /\ clicked = [s \in Sessions |-> 0]
    /\ frames = [s \in Sessions |-> NoFrames]
    /\ conn = [s \in Sessions |-> NoConn]
    /\ route = [s \in Sessions |-> "none"]
    /\ runs = [s \in Sessions |-> 0]
    /\ out = [s \in Sessions |-> NoOut]

\* The application: two sessions, each source file present, malformed or
\* missing.
Init ==
    /\ fileState \in [Files -> {"ok", "malformed", "missing"}]
    /\ policiesCsv = SamplePolicies
    /\ feesCsv = SampleFees
    /\ InitProcess(Sessions)

Spec == Init /\ [][Next]_vars

---------------------------------------------------------------------------
(* Specifications for the queries: one session, both files well-formed,   *)
(* and the content of the file the query reads drawn from a bounded family *)

Statuses == {"active", "cancelled"}
FeeStatuses == {"pending", "overdue", "paid"}
PolicyIds == {1, 2}

VehicleSamples ==
    { Vehicle(1, 1, 1), Vehicle(1, 2, 1), Vehicle(2, 1, 1),
      [brand |-> 1, year |-> 1], [brand |-> Null, model |-> 1, year |-> 1] }

CoverageSamples ==
    { <<>>, <<Coverage(1)>>, <<Coverage(2)>>, <<Coverage(1), Coverage(2)>>,
      <<Coverage(42), Coverage(81)>> }

InitQ1 ==
    /\ fileState = [f \in Files |-> "ok"]
    /\ \E n \in 0..MaxRows :
          \E t \in [1..n -> Statuses \X VehicleSamples] :
             policiesCsv = [i \in 1..n |->
                              PolicyRow(i, t[i][1], t[i][2], <<Coverage(1)>>)]
    /\ feesCsv = SampleFees
    /\ InitProcess({"s1"})

SpecQ1 == InitQ1 /\ [][Next]_vars

InitQ2 ==
    /\ fileState = [f \in Files |-> "ok"]
    /\ \E n \in 0..MaxRows :
          \E t \in [1..n -> PolicyIds \X CoverageSamples] :
             policiesCsv = [i \in 1..n |->
                              PolicyRow(t[i][1], "active", Vehicle(1, 1, 1), t[i][2])]
    /\ feesCsv = SampleFees
    /\ InitProcess({"s1"})

SpecQ2 == InitQ2 /\ [][Next]_vars

InitQ3 ==
    /\ fileState = [f \in Files |-> "ok"]
    /\ policiesCsv = SamplePolicies
    /\ \E n \in 0..MaxFees :
          \E t \in [1..n -> PolicyIds \X FeeStatuses \X Days] :
             feesCsv = [i \in 1..n |-> FeeRow(i, t[i][1], t[i][2], t[i][3])]
    /\ InitProcess({"s1"})

SpecQ3 == InitQ3 /\ [][Next]_vars

\* Up to MaxPolicies policies over up to MaxBrands brands: policy i has brand
\* 1 + (a*i*i + b*i) mod nb, model 1 + i mod 2 and a single coverage of
\* premium 1 + (a*i + b) mod 4.
InitTop ==
    /\ fileState = [f \in Files |-> "ok"]
    /\ \E n \in 0..MaxPolicies, nb \in 1..MaxBrands, a \in 0..2, b \in 0..2 :
          policiesCsv = [i \in 1..n |->
              PolicyRow(i, "active",
                        Vehicle(1 + ((a * i * i + b * i) % nb), 1 + (i % 2), 1),
                        <<Coverage(1 + ((a * i + b) % 4))>>)]
    /\ feesCsv = SampleFees
    /\ InitProcess({"s1"})

SpecTop == InitTop /\ [][Next]_vars

---------------------------------------------------------------------------
(* Properties of the loader and of the script run (checked under Spec) *)

\* What the engine holds right after a load of the two source files.
LoadedEngine ==
    [policies |-> PoliciesToSql(ReadPoliciesCsv(policiesCsv)),
     fees |-> FeesToSql(ReadFeesCsv(feesCsv))]

AllFilesOk == \A f \in Files : fileState[f] = "ok"

\* Exactly file f is malformed, the other file is well-formed.
OnlyMalformed(f) ==
    /\ fileState[f] = "malformed"
    /\ \A g \in Files \ {f} : fileState[g] = "ok"

\* Session s is at, or past, the place where the script executes queries.
InQueries(s) == pc[s] \in {"tab1", "q2", "q3"}

\* C1. Idempotent initialisation: once get_connection() has succeeded (the
\* cache holds a handle), no later step changes the cached handle, reads a
\* CSV file again or changes an engine (no relation added, no row
\* duplicated), and every handle a call returns is the cached one.
C1_IdempotentInit ==
    [][cache # NoConn =>
         /\ cache' = cache
         /\ reads' = reads
         /\ engines' = engines
         /\ Len(engines) = 1
         /\ DOMAIN engines[cache] = Files
         /\ engines[cache] = LoadedEngine
         /\ \A s \in Sessions : conn'[s] \in {NoConn, cache}]_vars

\* C1 witness: a later script run of a session got the handle from the cache
\* after the first load.
C1_Witness ==
    \E s \in Sessions :
        /\ runs[s] >= 2
        /\ route[s] = "hit"
        /\ conn[s] = cache
        /\ cache # NoConn
        /\ reads = [f \in Files |-> 1]

\* C2. Once-only initialisation under concurrency: in every interleaving of
\* the sessions at most one engine is ever created, each well-formed file
\* set is read at most once, and no two sessions hold different handles.
C2_OnceOnly ==
    /\ Len(engines) <= 1
    /\ AllFilesOk => \A f \in Files : reads[f] <= 1
    /\ \A s, u \in Sessions :
          (conn[s] # NoConn /\ conn[u] # NoConn) => conn[s] = conn[u]
    /\ \A s \in Sessions : (InQueries(s) /\ AllFilesOk) => conn[s] = cache

\* C2 witness: both sessions missed the cache before any call completed; one
\* computed the value, the other waited for the lock and received the same
\* handle.
C2_Witness ==
    \E s, u \in Sessions :
        /\ route[s] = "computed"
        /\ route[u] = "waited"
        /\ conn[s] = conn[u]
        /\ conn[s] # NoConn

\* C7 as claimed. Load-failure isolation: when exactly one file is malformed
\* and a session's load has failed on it, the other file's relation has
\* still been created in an engine.
C7_LoadFailureIsolated ==
    \A f \in Files :
        (OnlyMalformed(f) /\ \E s \in Sessions : pc[s] = "error")
        => \E h \in DOMAIN engines : \A g \in Files \ {f} : g \in DOMAIN engines[h]

\* C7 as amended. When exactly one file is malformed the failure propagates
\* out of load_data and get_connection: no engine and no relation is
\* created, nothing is cached, no session gets a handle or reaches a query.
C7_LoadFailureFatal ==
    \A f \in Files :
        OnlyMalformed(f) =>
            /\ engines = <<>>
            /\ cache = NoConn
            /\ \A s \in Sessions :
                  /\ conn[s] = NoConn
                  /\ out[s] = NoOut
                  /\ pc[s] \notin {"to_sql", "store", "tab1", "q2", "q3"}

\* C7 witness: only fees.csv is malformed, policies.csv has been read, and a
\* session's script run has ended in the error.
C7_Witness ==
    /\ OnlyMalformed("fees")
    /\ reads.policies >= 1
    /\ \E s \in Sessions : pc[s] = "error" /\ lock # s

\* C8. Populate-before-execute: a session is at the queries, or shows a
\* query result, only when get_connection() has returned in that run the
\* cached handle of an engine holding both loaded relations; when a source
\* file is missing no engine exists, nothing is cached and no session
\* reaches a query.
C8_PopulateBeforeExecute ==
    /\ \A s \in Sessions :
          (InQueries(s) \/ out[s].ran # 0) =>
              /\ route[s] \in {"hit", "waited", "computed"}
              /\ conn[s] # NoConn
              /\ conn[s] = cache
              /\ conn[s] \in DOMAIN engines
              /\ engines[conn[s]] = LoadedEngine
    /\ (\E f \in Files : fileState[f] = "missing") =>
          /\ engines = <<>>
          /\ cache = NoConn
          /\ \A s \in Sessions :
                conn[s] = NoConn /\ out[s].ran = 0 /\ ~InQueries(s)

\* C8 witness: a query has been executed in a run whose get_connection()
\* returned the cached handle.
C8_Witness ==
    \E s \in Sessions :
        /\ out[s].ran = 1
        /\ out[s].df1 # <<>>
        /\ conn[s] = cache
        /\ cache # NoConn

\* C9. Read-only execution: a step of a session through the query section
\* of the script changes neither the engines nor the cache, and shows a
\* result only for the button clicked in that run.
C9_ReadOnlyExecution ==
    [][\A s \in Sessions :
          (InQueries(s) /\ pc'[s] # pc[s]) =>
              /\ engines' = engines
              /\ cache' = cache
              /\ \A h \in DOMAIN engines' : engines'[h] = LoadedEngine
              /\ out'[s] # out[s] =>
                    (clicked[s] # 0 /\ out'[s].ran = clicked[s])
              /\ out'[s].ran \in {0, clicked[s]}]_vars

\* C9 witness: both sessions have executed queries against the one engine,
\* one of them in its third run, and the engine still holds the loaded rows.
C9_Witness ==
    \E s, u \in Sessions :
        /\ s # u
        /\ runs[s] = 3
        /\ out[s].ran = 3
        /\ out[u].ran = 2
        /\ conn[s] = conn[u]
        /\ engines = <<LoadedEngine>>

---------------------------------------------------------------------------
(* Properties of the queries, stated over the content of the source files *)

Min(a, b) == IF a < b THEN a ELSE b

RECURSIVE CovSum(_)
CovSum(cov) == IF cov = <<>> THEN 0 ELSE Head(cov).premium + CovSum(Tail(cov))

\* Sum of the premiums of all coverage entries of the rows of policy p.
RECURSIVE PremiumSum(_, _)
PremiumSum(csv, p) ==
    IF csv = <<>> THEN 0
    ELSE (IF Head(csv).policy_id = p THEN CovSum(Head(csv).coverages) ELSE 0)
         + PremiumSum(Tail(csv), p)

\* The policies with at least one coverage entry.
Covered == {policiesCsv[i].policy_id :
               i \in {j \in DOMAIN policiesCsv : policiesCsv[j].coverages # <<>>}}

\* Row i of policies.csv is an active policy with brand, model and year.
Counted(i) ==
    LET r == policiesCsv[i]
    IN  /\ r.status = "active"
        /\ \A k \in {"brand", "model", "year"} :
              k \in DOMAIN r.vehicle /\ r.vehicle[k] # Null

BrandCount(b) ==
    Cardinality({i \in DOMAIN policiesCsv : Counted(i) /\ policiesCsv[i].vehicle.brand = b})

CountedBrands == {policiesCsv[i].vehicle.brand : i \in {j \in DOMAIN policiesCsv : Counted(j)}}

\* Fee i of fees.csv belongs to policy p, is unsettled and is due on or after now.
Qualifies(i, p, now) ==
    /\ feesCsv[i].policy_id = p
    /\ feesCsv[i].status \in {"pending", "overdue"}
    /\ feesCsv[i].due_date >= now

FeeIndex(id) == CHOOSE i \in DOMAIN feesCsv : feesCsv[i].fee_id = id

\* shown is the top n of the entities of agg (entity -> aggregate): all of
\* them when there are fewer than n, one row per entity with its aggregate,
\* in non-increasing order, and no entity left out has a larger aggregate
\* than one shown.
IsTopN(shown, key, val, agg, n) ==
    /\ Len(shown) = Min(n, Cardinality(DOMAIN agg))
    /\ \A j \in DOMAIN shown :
          shown[j][key] \in DOMAIN agg /\ shown[j][val] = agg[shown[j][key]]
    /\ \A j, k \in DOMAIN shown : j < k =>
          shown[j][key] # shown[k][key] /\ shown[j][val] >= shown[k][val]
    /\ \A e \in DOMAIN agg \ {shown[j][key] : j \in DOMAIN shown} :
          \A j \in DOMAIN shown : shown[j][val] >= agg[e]

\* The example of the ranking: A = 100, B = 80, C = 80, D = 5 (entities 1..4).
ExampleRows(key, val) ==
    << [x \in {key, val} |-> IF x = key THEN 1 ELSE 100],
       [x \in {key, val} |-> IF x = key THEN 2 ELSE 80],
       [x \in {key, val} |-> IF x = key THEN 3 ELSE 80],
       [x \in {key, val} |-> IF x = key THEN 4 ELSE 5] >>

ExampleTop3 ==
    /\ \A tie \in TieOrders :
          LET r == FirstN(StableSortDesc(
                              EngineOrder(ExampleRows("policy_id", "prima_total"), tie),
                              "prima_total"), 3)
          IN  /\ Len(r) = 3
              /\ r[1].policy_id = 1
              /\ {r[2].policy_id, r[3].policy_id} = {2, 3}
    /\ LET r == NLargest(ExampleRows("marca", "cantidad"), 3)
       IN  <<r[1].marca, r[2].marca, r[3].marca>> = <<1, 2, 3>>

\* C3 as claimed. Next-due-item selection: after Consulta 3 ran at day now,
\* for every policy the result holds exactly one row when the policy has a
\* qualifying fee, that row being a qualifying fee of minimum due date, and
\* no row otherwise.
C3_NextDueExactlyOne ==
    \A s \in Sessions : out[s].ran = 3 =>
        \A p \in PolicyIds :
            LET Q == {i \in DOMAIN feesCsv : Qualifies(i, p, out[s].now)}
                R == {j \in DOMAIN out[s].df3 : out[s].df3[j].policy_id = p}
            IN  IF Q = {} THEN R = {}
                ELSE /\ Cardinality(R) = 1
                     /\ \A j \in R :
                           /\ FeeIndex(out[s].df3[j].fee_id) \in Q
                           /\ \A i \in Q :
                                 feesCsv[FeeIndex(out[s].df3[j].fee_id)].due_date
                                    <= feesCsv[i].due_date

\* C4. Nested-attribute expansion: after Consulta 2 ran, prima_total of every
\* result row is the sum of the premiums of all coverage entries of that
\* policy, each entry counted once and none of another policy.
C4_PrimaTotalIsSum ==
    \A s \in Sessions : out[s].ran = 2 =>
        \A j \in DOMAIN out[s].df2 :
            out[s].df2[j].prima_total =
                PremiumSum(policiesCsv, out[s].df2[j].policy_id)

\* C4 witness: a policy with the two coverage entries 10.5 and 20.25 (42 and
\* 81 quarter units) is reported with 30.75 (123), beside another policy.
C4_Witness ==
    \E s \in Sessions :
        /\ out[s].ran = 2
        /\ Len(out[s].df2) = 2
        /\ \E i \in DOMAIN policiesCsv :
              /\ policiesCsv[i].coverages = <<Coverage(42), Coverage(81)>>
              /\ \E j \in DOMAIN out[s].df2 :
                    /\ out[s].df2[j].policy_id = policiesCsv[i].policy_id
                    /\ out[s].df2[j].prima_total = 123

\* C5. Top-N ranking: the rows shown for Consulta 2 are the first 15 rows of
\* the engine's result and are the top 15 policies by prima_total; the
\* brand chart of Consulta 1 holds the top 10 brands by summed count; the
\* example A=100, B=80, C=80, D=5 with N=3 gives A, then B and C, without D.
C5_TopNRanking ==
    /\ \A s \in Sessions :
          /\ out[s].ran = 2 =>
                /\ IsTopN(out[s].shown2, "policy_id", "prima_total",
                          [p \in Covered |-> PremiumSum(policiesCsv, p)], HeadN)
                /\ \A j \in DOMAIN out[s].shown2 : out[s].shown2[j] = out[s].df2[j]
          /\ out[s].ran = 1 =>
                IsTopN(out[s].top_brand, "marca", "cantidad",
                       [b \in CountedBrands |-> BrandCount(b)], NLargestN)
    /\ ExampleTop3

\* C5 witness: Consulta 2 returned more than 15 policies, 15 are shown, and
\* the policy at the cut-off ties with the first one left out.
C5_Witness ==
    \E s \in Sessions :
        /\ out[s].ran = 2
        /\ Len(out[s].df2) > HeadN
        /\ Len(out[s].shown2) = HeadN
        /\ out[s].df2[HeadN].prima_total = out[s].df2[HeadN + 1].prima_total
        /\ out[s].df2[1].prima_total > out[s].df2[HeadN].prima_total

\* C6 as claimed. Categorical distribution: after Consulta 1 ran, the counts
\* of its groups sum to the total number of rows of policies.
C6_CountsSumToTotal ==
    \A s \in Sessions : out[s].ran = 1 =>
        SumField(out[s].df1, "cantidad") = Len(policiesCsv)

\* C6 as amended. The counts sum to the number of rows that are active and
\* have a non-NULL brand, model and year; each group's count is the number
\* of such rows of the group, and the rows are in non-increasing count.
C6_CountsSumToActive ==
    \A s \in Sessions : out[s].ran = 1 =>
        /\ SumField(out[s].df1, "cantidad") =
              Cardinality({i \in DOMAIN policiesCsv : Counted(i)})
        /\ \A j \in DOMAIN out[s].df1 :
              out[s].df1[j].cantidad =
                 Cardinality({i \in DOMAIN policiesCsv :
                     /\ Counted(i)
                     /\ policiesCsv[i].vehicle =
                           Vehicle(out[s].df1[j].marca, out[s].df1[j].modelo,
                                   out[s].df1[j].anio)})
        /\ \A j, k \in DOMAIN out[s].df1 :
              j < k => out[s].df1[j].cantidad >= out[s].df1[k].cantidad

\* C6 witness: Consulta 1 ran on a table with a counted row, a cancelled
\* policy and an active policy without a model.
C6_Witness ==
    \E s \in Sessions :
        /\ out[s].ran = 1
        /\ out[s].df1 # <<>>
        /\ \E i \in DOMAIN policiesCsv : policiesCsv[i].status = "cancelled"
        /\ \E i \in DOMAIN policiesCsv :
              /\ policiesCsv[i].status = "active"
              /\ "model" \notin DOMAIN policiesCsv[i].vehicle

\* C10. After Consulta 2 ran, the result holds one row for exactly the
\* policies with at least one coverage entry; a policy whose list is empty
\* has no row.
C10_OnlyCoveredPolicies ==
    \A s \in Sessions : out[s].ran = 2 =>
        /\ {out[s].df2[j].policy_id : j \in DOMAIN out[s].df2} = Covered
        /\ Len(out[s].df2) = Cardinality(Covered)

\* C10 witness: of two policies one has an empty coverages list; the result
\* holds the other one only.
C10_Witness ==
    \E s \in Sessions :
        /\ out[s].ran = 2
        /\ Len(out[s].df2) = 1
        /\ Cardinality({policiesCsv[i].policy_id : i \in DOMAIN policiesCsv}) = 2
        /\ \E i \in DOMAIN policiesCsv :
              /\ policiesCsv[i].coverages = <<>>
              /\ \A j \in DOMAIN out[s].df2 :
                    out[s].df2[j].policy_id # policiesCsv[i].policy_id

====
